---- MODULE Spec2Model ----
(***************************************************************************)
(* Mini-MAC (Arduino_CAN): the authentication engine of send/minimac.cpp   *)
(* and receive_check/minimac.cpp, with its EEPROM snapshot.                *)
(*                                                                         *)
(* Two engines are modelled, "A" (the sketch built from send/) and "B"     *)
(* (the sketch built from receive_check/).  Both files contain the same    *)
(* init/sign/verify/load_state/save_state code, so one set of definitions  *)
(* models both.  RAM arrays keep the C indices (0-based functions),        *)
(* payloads and the HMAC input are sequences of bytes.                     *)
(***************************************************************************)
EXTENDS Integers, Sequences, FiniteSets, TLC

Engines == {"A", "B"}

\* ---------------------------------------------------------------- constants
MINIMAC_KEY_LEN  == 16
MINIMAC_TAG_LEN  == 4
MINIMAC_HIST_LEN == 5
MINIMAC_MAX_DATA == 8
DIGEST_LEN       == 16

SIG_ADDR  == 0
\* 0xAA55AA55 as EEPROM.put stores it (AVR is little-endian): 55 AA 55 AA
SIGVAL    == <<85, 170, 85, 170>>
DATA_ADDR == SIG_ADDR + Len(SIGVAL)

COUNTER_SIZE == 8
\* sizeof(MiniMacHist): uint8_t len + uint8_t data[MINIMAC_MAX_DATA]
SLOT_SIZE  == 1 + MINIMAC_MAX_DATA
HIST_BYTES == MINIMAC_HIST_LEN * SLOT_SIZE
\* EEPROM cells an erased part holds
ERASED == 255
\* the EEPROM region the model keeps: magic, counter, count, 5 slots
EEPROM_CELLS == DATA_ADDR + COUNTER_SIZE + 1 + MINIMAC_HIST_LEN * SLOT_SIZE

\* ------------------------------------------------------------------- bounds
\* no state-advancing call is made once the counter has reached the bound
MaxCounter        == 6
PairMaxCounter    == 6
CorruptMaxCounter == 2
OverMaxCounter    == 5
CallsMaxCounter   == 6
LossMaxCounter    == 4
ReentMaxCounter   == 3
TwinMaxCounter    == 3
\* calls completed in a run in which power may fail inside a call
TornMaxCalls      == 2

\* the payload of length n offered by the callers (every byte is n)
Payload(n) == [j \in 1..n |-> n]
\* payload lengths offered: empty, short, and a full CAN data field
Payloads     == {Payload(0), Payload(2), Payload(MINIMAC_MAX_DATA)}
PairPayloads == {Payload(0), Payload(2)}
\* a payload one byte longer than MINIMAC_MAX_DATA
Oversize     == [j \in 1..(MINIMAC_MAX_DATA + 1) |-> 1]
OverPayloads == {Payload(0), Oversize}
CallPayloads == {Payload(0), Payload(3), Payload(MINIMAC_MAX_DATA)}
\* payloads of one and of two bytes with the same byte value
TwinPayloads == {<<1>>, <<1, 1>>}

CanIds == {291}            \* 0x123
Keys   == {"K"}            \* a 16-byte key, kept symbolic
PeerKeys == {"K", "K2"}    \* the keys the receiving sketch may be built with

VARIABLES
  mm_id,        \* [Engines -> can id]
  mm_key,       \* [Engines -> key]
  mm_counter,   \* [Engines -> Nat]
  mm_hist,      \* [Engines -> [0..4 -> [len, data : [0..7 -> byte]]]]
  mm_hist_cnt,  \* [Engines -> byte]
  mm_after,     \* [Engines -> byte]  the RAM byte that follows mm_hist
  cnt_follows,  \* build property: mm_hist_cnt is the byte that follows mm_hist
  eeprom,       \* [Engines -> [0..EEPROM_CELLS-1 -> byte]]
  phase,        \* [Engines -> {"new", "off", "run"}]: never powered, powered
                \* off after a run, init has returned
  wire,         \* sequence of the messages [p, tag] that sign produced
  ret,          \* the last call: its engine, name, arguments and result
  wr,           \* EEPROM addresses written by the last call
  log,          \* [Engines -> payloads of the sign / successful verify calls
                \*             since the fresh state], ghost
  snap,         \* [Engines -> counter and ledger given to the last save_state],
                \* ghost
  call          \* [Engines -> the sign call of the main program that has not
                \*             returned yet: how far it got, its arguments, its
                \*             tag, and (ghost) counter and ledger when it began]

vars == <<mm_id, mm_key, mm_counter, mm_hist, mm_hist_cnt, mm_after,
          cnt_follows, eeprom, phase, wire, ret, wr, log, snap, call>>

\* ------------------------------------------------------------------ helpers
Min(a, b) == IF a < b THEN a ELSE b

RECURSIVE ByteOf(_, _)
\* byte i (0 = least significant) of the unsigned value v
ByteOf(v, i) == IF i = 0 THEN v % 256 ELSE ByteOf(v \div 256, i - 1)

ZeroSlot == [len |-> 0, data |-> [j \in 0..(MINIMAC_MAX_DATA - 1) |-> 0]]
ZeroHist == [i \in 0..(MINIMAC_HIST_LEN - 1) |-> ZeroSlot]

\* RAM byte at offset o from &mm_hist[0]; offset HIST_BYTES is the byte after
\* the array (mm_hist_cnt itself in a build that places it there)
MemRead(h, cnt, after, o) ==
  IF o < HIST_BYTES
    THEN IF o % SLOT_SIZE = 0 THEN h[o \div SLOT_SIZE].len
                              ELSE h[o \div SLOT_SIZE].data[(o % SLOT_SIZE) - 1]
    ELSE IF cnt_follows THEN cnt ELSE after

\* the bytes mm_hist[i].data[0 .. n-1] as memcpy reads them
SlotBytes(h, cnt, after, i, n) ==
  [j \in 1..n |-> MemRead(h, cnt, after, i * SLOT_SIZE + 1 + (j - 1))]

\* the keyed hash: a function of (key, message) with 16 output bytes, no two
\* inputs sharing an output byte
hmac_md5(msg, key) == [i \in 0..(DIGEST_LEN - 1) |-> <<key, msg, i>>]

\* the first MINIMAC_TAG_LEN bytes of a digest
TagOf(digest) == [i \in 0..(MINIMAC_TAG_LEN - 1) |-> digest[i]]

\* memcmp(a, b, MINIMAC_TAG_LEN) != 0
TagDiffers(a, b) == \E i \in 0..(MINIMAC_TAG_LEN - 1) : a[i] # b[i]

\* compute_digest step (2): the counter, most significant byte first
CounterBE(c) == [j \in 1..COUNTER_SIZE |-> ByteOf(c, COUNTER_SIZE - j)]

RECURSIVE HistConcat(_, _, _, _)
\* compute_digest step (4): mm_hist[i].data[0..len-1] for i = from .. cnt-1
HistConcat(h, cnt, after, from) ==
  IF from >= cnt THEN <<>>
  ELSE SlotBytes(h, cnt, after, from, h[from].len)
         \o HistConcat(h, cnt, after, from + 1)

\* the buffer with the counter bytes stored least significant byte first
DigestInput_counterLE(id, c, h, cnt, after, data) ==
  [j \in 1..COUNTER_SIZE |-> ByteOf(c, j - 1)]
    \o <<id \div 256, id % 256>> \o HistConcat(h, cnt, after, 0) \o data

\* the buffer without the history loop
DigestInput_noHistory(id, c, h, cnt, after, data) ==
  CounterBE(c) \o <<id \div 256, id % 256>> \o data

\* the buffer without the counter bytes
DigestInput_noCounter(id, c, h, cnt, after, data) ==
  <<id \div 256, id % 256>> \o HistConcat(h, cnt, after, 0) \o data

\* the buffer compute_digest hands to hmac_md5
DigestInput(id, c, h, cnt, after, data) ==
  CounterBE(c) \o <<id \div 256, id % 256>> \o HistConcat(h, cnt, after, 0) \o data

compute_digest(e, data) ==
  hmac_md5(DigestInput(mm_id[e], mm_counter[e], mm_hist[e], mm_hist_cnt[e],
                       mm_after[e], data),
           mm_key[e])

\* ------------------------------------------------------ persistent snapshot
\* the slot address with addr advanced by MINIMAC_MAX_DATA only
SlotAddr_noLenStride(i) == DATA_ADDR + COUNTER_SIZE + 1 + i * MINIMAC_MAX_DATA

\* address of the length byte of slot i: addr starts behind the count and
\* advances by sizeof(len) + MINIMAC_MAX_DATA per entry
SlotAddr(i) == DATA_ADDR + COUNTER_SIZE + 1 + i * (1 + MINIMAC_MAX_DATA)

\* EEPROM.put(addr, v) for a v of n bytes given as a sequence
PutBytes(addr, bytes) == [j \in 1..Len(bytes) |-> [addr |-> addr + j - 1, val |-> bytes[j]]]

\* EEPROM.put(DATA_ADDR, mm_counter): the uint64_t as it lies in RAM
CounterLE(c) == [j \in 1..COUNTER_SIZE |-> ByteOf(c, j - 1)]

RECURSIVE SlotWrites(_, _, _, _)
\* save_state step (3): the puts of slots from .. cnt-1, in program order
SlotWrites(h, cnt, after, from) ==
  IF from >= cnt THEN <<>>
  ELSE PutBytes(SlotAddr(from), <<h[from].len>>)
         \o PutBytes(SlotAddr(from) + 1,
                     SlotBytes(h, cnt, after, from, MINIMAC_MAX_DATA))
         \o SlotWrites(h, cnt, after, from + 1)

\* save_state with the slot loop running over all MINIMAC_HIST_LEN slots
SaveWrites_allSlots(c, h, cnt, after) ==
  PutBytes(SIG_ADDR, SIGVAL)
    \o PutBytes(DATA_ADDR, CounterLE(c))
    \o PutBytes(DATA_ADDR + COUNTER_SIZE, <<cnt>>)
    \o SlotWrites(h, MINIMAC_HIST_LEN, after, 0)

\* save_state without the put of mm_hist_cnt
SaveWrites_noCount(c, h, cnt, after) ==
  PutBytes(SIG_ADDR, SIGVAL)
    \o PutBytes(DATA_ADDR, CounterLE(c))
    \o SlotWrites(h, cnt, after, 0)

\* every byte save_state writes, in program order
SaveWrites(c, h, cnt, after) ==
  PutBytes(SIG_ADDR, SIGVAL)
    \o PutBytes(DATA_ADDR, CounterLE(c))
    \o PutBytes(DATA_ADDR + COUNTER_SIZE, <<cnt>>)
    \o SlotWrites(h, cnt, after, 0)

RECURSIVE ApplyWrites(_, _)
ApplyWrites(ee, ws) ==
  IF ws = <<>> THEN ee
  ELSE ApplyWrites([ee EXCEPT ![Head(ws).addr] = Head(ws).val], Tail(ws))

WrittenAddrs(ws) == {ws[j].addr : j \in 1..Len(ws)}

\* the EEPROM after save_state
save_state(ee, c, h, cnt, after) == ApplyWrites(ee, SaveWrites(c, h, cnt, after))

RECURSIVE CounterFromLE(_, _)
\* EEPROM.get(DATA_ADDR, mm_counter): bytes i .. 7 of the stored counter
CounterFromLE(ee, i) ==
  IF i >= COUNTER_SIZE THEN 0
  ELSE ee[DATA_ADDR + i] + 256 * CounterFromLE(ee, i + 1)

\* load_state without the EEPROM.get of mm_hist_cnt
load_state_noCount(ee, c, h, cnt) ==
  IF \E j \in 1..Len(SIGVAL) : ee[SIG_ADDR + j - 1] # SIGVAL[j]
    THEN [ok |-> FALSE, counter |-> c, cnt |-> cnt, hist |-> h]
    ELSE [ok      |-> TRUE,
          counter |-> CounterFromLE(ee, 0),
          cnt     |-> cnt,
          hist    |-> [i \in 0..(MINIMAC_HIST_LEN - 1) |->
                         IF i < cnt
                           THEN [len  |-> ee[SlotAddr(i)],
                                 data |-> [j \in 0..(MINIMAC_MAX_DATA - 1) |->
                                             ee[SlotAddr(i) + 1 + j]]]
                           ELSE h[i]]]

\* load_state comparing only the low 16 bits of the signature
load_state_sigLow16(ee, c, h, cnt) ==
  IF \E j \in 1..2 : ee[SIG_ADDR + j - 1] # SIGVAL[j]
    THEN [ok |-> FALSE, counter |-> c, cnt |-> cnt, hist |-> h]
    ELSE [ok      |-> TRUE,
          counter |-> CounterFromLE(ee, 0),
          cnt     |-> ee[DATA_ADDR + COUNTER_SIZE],
          hist    |-> [i \in 0..(MINIMAC_HIST_LEN - 1) |->
                         IF i < ee[DATA_ADDR + COUNTER_SIZE]
                           THEN [len  |-> ee[SlotAddr(i)],
                                 data |-> [j \in 0..(MINIMAC_MAX_DATA - 1) |->
                                             ee[SlotAddr(i) + 1 + j]]]
                           ELSE h[i]]]

\* load_state: ok = its return value; counter, cnt and hist are the globals
\* after the call (slots at or above the stored count are not touched)
load_state(ee, c, h, cnt) ==
  IF \E j \in 1..Len(SIGVAL) : ee[SIG_ADDR + j - 1] # SIGVAL[j]
    THEN [ok |-> FALSE, counter |-> c, cnt |-> cnt, hist |-> h]
    ELSE LET n == ee[DATA_ADDR + COUNTER_SIZE]
         IN [ok      |-> TRUE,
             counter |-> CounterFromLE(ee, 0),
             cnt     |-> n,
             hist    |-> [i \in 0..(MINIMAC_HIST_LEN - 1) |->
                            IF i < n
                              THEN [len  |-> ee[SlotAddr(i)],
                                    data |-> [j \in 0..(MINIMAC_MAX_DATA - 1) |->
                                                ee[SlotAddr(i) + 1 + j]]]
                              ELSE h[i]]]

\* the addresses read with the slot loop running while i <= mm_hist_cnt
LoadReads_offByOne(ee) ==
  (SIG_ADDR..(SIG_ADDR + Len(SIGVAL) - 1))
    \cup (IF \E j \in 1..Len(SIGVAL) : ee[SIG_ADDR + j - 1] # SIGVAL[j]
            THEN {}
            ELSE (DATA_ADDR..(DATA_ADDR + COUNTER_SIZE))
                   \cup UNION {SlotAddr(i)..(SlotAddr(i) + MINIMAC_MAX_DATA) :
                                 i \in 0..ee[DATA_ADDR + COUNTER_SIZE]})

\* the EEPROM addresses the EEPROM.get calls of load_state read
LoadReads(ee) ==
  (SIG_ADDR..(SIG_ADDR + Len(SIGVAL) - 1))
    \cup (IF \E j \in 1..Len(SIGVAL) : ee[SIG_ADDR + j - 1] # SIGVAL[j]
            THEN {}
            ELSE (DATA_ADDR..(DATA_ADDR + COUNTER_SIZE))
                   \cup UNION {SlotAddr(i)..(SlotAddr(i) + MINIMAC_MAX_DATA) :
                                 i \in 0..(ee[DATA_ADDR + COUNTER_SIZE] - 1)})

\* --------------------------------------------------------------- the ledger
\* sign step (4) / verify steps (4),(5): drop the oldest entry when the ledger
\* is full, store the payload in slot mm_hist_cnt, count it.  memcpy writes
\* payload_len bytes from &mm_hist[cnt].data[0]: at offset base from
\* &mm_hist[0]; bytes past data[7] land in the following slot, and past the
\* array in the byte that follows it.

\* the ledger after the oldest entry is dropped: mm_hist[i-1] = mm_hist[i]
Shifted(h, cnt) ==
  [i \in 0..(MINIMAC_HIST_LEN - 1) |-> IF i + 1 < cnt THEN h[i + 1] ELSE h[i]]

\* mm_hist[c1].len = payload_len; memcpy(mm_hist[c1].data, data, payload_len);
\* mm_hist_cnt++
Stored(h1, c1, after, p, base) ==
  [hist  |-> [i \in 0..(MINIMAC_HIST_LEN - 1) |->
                [len  |-> IF i * SLOT_SIZE >= base /\ i * SLOT_SIZE < base + Len(p)
                            THEN p[i * SLOT_SIZE - base + 1]
                            ELSE IF i = c1 THEN Len(p) % 256 ELSE h1[i].len,
                 data |-> [j \in 0..(MINIMAC_MAX_DATA - 1) |->
                             IF i * SLOT_SIZE + 1 + j >= base
                                  /\ i * SLOT_SIZE + 1 + j < base + Len(p)
                               THEN p[i * SLOT_SIZE + 1 + j - base + 1]
                               ELSE h1[i].data[j]]]],
   cnt   |-> (IF HIST_BYTES < base + Len(p) /\ cnt_follows
                THEN p[HIST_BYTES - base + 1] + 1 ELSE c1 + 1) % 256,
   after |-> IF HIST_BYTES < base + Len(p) /\ ~cnt_follows
               THEN p[HIST_BYTES - base + 1] ELSE after]

\* the append with a full ledger overwriting the newest entry instead of
\* shifting the oldest out
HistAppend_noShift(h, cnt, after, p) ==
  IF cnt = MINIMAC_HIST_LEN
    THEN Stored(h, cnt - 1, after, p, (cnt - 1) * SLOT_SIZE + 1)
    ELSE Stored(h, cnt, after, p, cnt * SLOT_SIZE + 1)

\* the append storing the payload together with the MINIMAC_TAG_LEN tag bytes
HistAppend_taggedLen(h, cnt, after, p) ==
  IF cnt = MINIMAC_HIST_LEN
    THEN Stored(Shifted(h, cnt), cnt - 1, after,
                p \o [j \in 1..MINIMAC_TAG_LEN |-> 0], (cnt - 1) * SLOT_SIZE + 1)
    ELSE Stored(h, cnt, after,
                p \o [j \in 1..MINIMAC_TAG_LEN |-> 0], cnt * SLOT_SIZE + 1)

HistAppend(h, cnt, after, p) ==
  IF cnt = MINIMAC_HIST_LEN
    THEN Stored(Shifted(h, cnt), cnt - 1, after, p, (cnt - 1) * SLOT_SIZE + 1)
    ELSE Stored(h, cnt, after, p, cnt * SLOT_SIZE + 1)

\* ------------------------------------------------------------------ actions
NoTag == [i \in 0..(MINIMAC_TAG_LEN - 1) |-> <<"none", <<>>, i>>]
\* a tag made without the key
ForgedTag == TagOf(hmac_md5(<<>>, "forged"))

\* a call as the caller sees it: engine, function, the payload and tag
\* passed in (sign: the tag computed), the result, and the bytes of the
\* caller's data buffer when the call returns (const for all but sign)
Call(e, op, p, tag, ok, total) ==
  [e |-> e, op |-> op, p |-> p, tag |-> tag, ok |-> ok, total |-> total,
   buf |-> p]

\* counter, entry count and the live entries (length, data block)
Ledger(c, h, cnt) ==
  [counter |-> c, cnt |-> cnt,
   entries |-> [i \in 0..(Min(cnt, MINIMAC_HIST_LEN) - 1) |-> h[i]]]

Ram(e) == Ledger(mm_counter[e], mm_hist[e], mm_hist_cnt[e])

\* no call of the main program is under way
Idle == [at |-> "idle", p |-> <<>>, tag |-> NoTag, pre |-> Ledger(0, ZeroHist, 0)]

\* both boards before their first power-on: statics are zero-initialised by
\* the C runtime, the EEPROM is erased
InitBase ==
  /\ mm_id       = [e \in Engines |-> 0]
  /\ mm_key      = [e \in Engines |-> "none"]
  /\ mm_counter  = [e \in Engines |-> 0]
  /\ mm_hist     = [e \in Engines |-> ZeroHist]
  /\ mm_hist_cnt = [e \in Engines |-> 0]
  /\ mm_after    = [e \in Engines |-> 0]
  /\ eeprom      = [e \in Engines |-> [a \in 0..(EEPROM_CELLS - 1) |-> ERASED]]
  /\ phase       = [e \in Engines |-> "new"]
  /\ wire        = <<>>
  /\ ret         = Call("A", "reset", <<>>, NoTag, TRUE, 0)
  /\ wr          = {}
  /\ log         = [e \in Engines |-> <<>>]
  /\ snap        = [e \in Engines |-> Ledger(0, ZeroHist, 0)]
  /\ call        = [e \in Engines |-> Idle]

Init == InitBase /\ cnt_follows = FALSE

\* minimac_init(can_id, key), the first call after reset (statics are zero)
minimac_init(e, can_id, key) ==
  LET ld == load_state(eeprom[e], mm_counter[e], mm_hist[e], mm_hist_cnt[e])
      ws == SaveWrites(0, ld.hist, 0, mm_after[e])
  IN /\ phase[e] # "run"
     /\ phase' = [phase EXCEPT ![e] = "run"]
     /\ mm_id' = [mm_id EXCEPT ![e] = can_id]
     /\ mm_key' = [mm_key EXCEPT ![e] = key]
     /\ IF ld.ok
          THEN /\ mm_counter' = [mm_counter EXCEPT ![e] = ld.counter]
               /\ mm_hist_cnt' = [mm_hist_cnt EXCEPT ![e] = ld.cnt]
               /\ mm_hist' = [mm_hist EXCEPT ![e] = ld.hist]
               /\ wr' = {}
               /\ UNCHANGED <<eeprom, log, snap>>
          ELSE /\ mm_counter' = [mm_counter EXCEPT ![e] = 0]
               /\ mm_hist_cnt' = [mm_hist_cnt EXCEPT ![e] = 0]
               /\ eeprom' = [eeprom EXCEPT ![e] = ApplyWrites(@, ws)]
               /\ wr' = WrittenAddrs(ws)
               /\ log' = [log EXCEPT ![e] = <<>>]
               /\ snap' = [snap EXCEPT ![e] = Ledger(0, ld.hist, 0)]
               /\ UNCHANGED mm_hist
     /\ ret' = Call(e, "init", <<>>, NoTag, ld.ok, 0)
     /\ UNCHANGED <<mm_after, cnt_follows, wire, call>>

\* the assignments of an update that leaves counter c and ledger ap behind
\* and makes the EEPROM writes ws
Commit(e, p, c, ap, ws) ==
  /\ mm_hist' = [mm_hist EXCEPT ![e] = ap.hist]
  /\ mm_hist_cnt' = [mm_hist_cnt EXCEPT ![e] = ap.cnt]
  /\ mm_after' = [mm_after EXCEPT ![e] = ap.after]
  /\ mm_counter' = [mm_counter EXCEPT ![e] = c]
  /\ eeprom' = [eeprom EXCEPT ![e] = ApplyWrites(@, ws)]
  /\ wr' = WrittenAddrs(ws)
  /\ log' = [log EXCEPT ![e] = Append(@, p)]
  /\ snap' = [snap EXCEPT ![e] = Ledger(c, ap.hist, ap.cnt)]

\* save_state() called with counter c and ledger ap in memory
Saving(e, p, c, ap) == Commit(e, p, c, ap, SaveWrites(c, ap.hist, ap.cnt, ap.after))

\* the update with mm_counter++ placed in the branch that appends without
\* evicting
Advance_noCountWhenFull(e, p) ==
  Saving(e, p,
         IF mm_hist_cnt[e] = MINIMAC_HIST_LEN THEN mm_counter[e]
                                              ELSE mm_counter[e] + 1,
         HistAppend(mm_hist[e], mm_hist_cnt[e], mm_after[e], p))

\* sign steps (4)-(6) and verify steps (4)-(7): append, count, save
Advance(e, p) ==
  Saving(e, p, mm_counter[e] + 1,
         HistAppend(mm_hist[e], mm_hist_cnt[e], mm_after[e], p))

\* a byte of the caller's buffer that no one has written
STALE == 238

\* the buffer with the tag copied to data instead of data + payload_len
Tagged_atStart(p, tag) ==
  [j \in 1..(Len(p) + MINIMAC_TAG_LEN) |->
     IF j <= MINIMAC_TAG_LEN
       THEN tag[j - 1]
       ELSE (p \o [i \in 1..MINIMAC_TAG_LEN |-> STALE])[j]]

\* the caller's buffer after memcpy(data + payload_len, digest,
\* MINIMAC_TAG_LEN): it held p, followed by room for the tag
Tagged(p, tag) ==
  [j \in 1..(Len(p) + MINIMAC_TAG_LEN) |->
     IF j > Len(p) /\ j <= Len(p) + MINIMAC_TAG_LEN
       THEN tag[j - Len(p) - 1]
       ELSE (p \o [i \in 1..MINIMAC_TAG_LEN |-> STALE])[j]]

\* sign steps (3)-(6) with the buffer buf that step (3) left: the ledger
\* entry is copied from data[0 .. payload_len-1] of that buffer
Signed(e, p, tag, buf) ==
  /\ Advance(e, SubSeq(buf, 1, Len(p)))
  /\ ret' = [Call(e, "sign", p, tag, TRUE, (Len(p) + MINIMAC_TAG_LEN) % 256)
               EXCEPT !.buf = buf]

\* minimac_sign(data, payload_len) with data[0..payload_len-1] = p
minimac_sign(e, p) ==
  /\ phase[e] = "run"
  /\ Signed(e, p, TagOf(compute_digest(e, p)),
            Tagged(p, TagOf(compute_digest(e, p))))
  /\ UNCHANGED <<mm_id, mm_key, cnt_follows, phase, call>>

\* verify whose success path appends and saves without mm_counter++
minimac_verify_noCount(e, p, tag) ==
  /\ phase[e] = "run"
  /\ IF TagDiffers(compute_digest(e, p), tag)
       THEN /\ ret' = Call(e, "verify", p, tag, FALSE, 0)
            /\ wr' = {}
            /\ UNCHANGED <<mm_hist, mm_hist_cnt, mm_after, mm_counter, eeprom,
                           log, snap>>
       ELSE /\ Saving(e, p, mm_counter[e],
                      HistAppend(mm_hist[e], mm_hist_cnt[e], mm_after[e], p))
            /\ ret' = Call(e, "verify", p, tag, TRUE, 0)
  /\ UNCHANGED <<mm_id, mm_key, cnt_follows, phase, call>>

\* verify without the memcmp of the tags: every message is accepted
minimac_verify_noCompare(e, p, tag) ==
  /\ phase[e] = "run"
  /\ Advance(e, p)
  /\ ret' = Call(e, "verify", p, tag, TRUE, 0)
  /\ UNCHANGED <<mm_id, mm_key, cnt_follows, phase, call>>

\* verify with the tag comparison made after the update: a mismatch still
\* appends, counts and saves
minimac_verify_updateFirst(e, p, tag) ==
  /\ phase[e] = "run"
  /\ Advance(e, p)
  /\ ret' = Call(e, "verify", p, tag, ~TagDiffers(compute_digest(e, p), tag), 0)
  /\ UNCHANGED <<mm_id, mm_key, cnt_follows, phase, call>>

\* minimac_verify(data, payload_len, tag)
minimac_verify(e, p, tag) ==
  /\ phase[e] = "run"
  /\ IF TagDiffers(compute_digest(e, p), tag)
       THEN /\ ret' = Call(e, "verify", p, tag, FALSE, 0)
            /\ wr' = {}
            /\ UNCHANGED <<mm_hist, mm_hist_cnt, mm_after, mm_counter, eeprom,
                           log, snap>>
       ELSE /\ Advance(e, p)
            /\ ret' = Call(e, "verify", p, tag, TRUE, 0)
  /\ UNCHANGED <<mm_id, mm_key, cnt_follows, phase, call>>

\* power is lost while no call is running: RAM is gone (and zero again when
\* the sketch restarts), the EEPROM stays
PowerCycle(e) ==
  /\ phase[e] = "run"
  /\ phase' = [phase EXCEPT ![e] = "off"]
  /\ mm_id' = [mm_id EXCEPT ![e] = 0]
  /\ mm_key' = [mm_key EXCEPT ![e] = "none"]
  /\ mm_counter' = [mm_counter EXCEPT ![e] = 0]
  /\ mm_hist' = [mm_hist EXCEPT ![e] = ZeroHist]
  /\ mm_hist_cnt' = [mm_hist_cnt EXCEPT ![e] = 0]
  /\ mm_after' = [mm_after EXCEPT ![e] = 0]
  /\ ret' = Call(e, "power", <<>>, NoTag, TRUE, 0)
  /\ wr' = {}
  /\ UNCHANGED <<cnt_follows, eeprom, wire, log, snap, call>>

\* ------------------------------------------------ one engine and its callers
Msg(p, tag) == [p |-> p, tag |-> tag]

\* the entries of engine e as byte sequences, with its key, id and counter
Entry(e, i) == SlotBytes(mm_hist[e], mm_hist_cnt[e], mm_after[e], i, mm_hist[e][i].len)
Logical(e) ==
  [key |-> mm_key[e], id |-> mm_id[e], counter |-> mm_counter[e],
   entries |-> [i \in 0..(Min(mm_hist_cnt[e], MINIMAC_HIST_LEN) - 1) |-> Entry(e, i)]]

\* the messages handed to verify: what a peer in the same state sends for a
\* payload of P, a payload of P with a forged tag, and the message the engine
\* itself signed last
Offered(e, P) ==
  {Msg(q, TagOf(compute_digest(e, q))) : q \in P}
    \cup {Msg(q, ForgedTag) : q \in P}
    \cup (IF ret.op = "sign" /\ ret.e = e THEN {Msg(ret.p, ret.tag)} ELSE {})

Boot(e)    == \E id \in CanIds, key \in Keys : minimac_init(e, id, key)
BootPeer(e) == \E id \in CanIds, key \in PeerKeys : minimac_init(e, id, key)
Restart(e) == PowerCycle(e)

Sign(e, P, max) ==
  \E p \in P : /\ mm_counter[e] < max
               /\ minimac_sign(e, p)
               /\ UNCHANGED wire

Verify(e, P, max) ==
  \E m \in Offered(e, P) :
     /\ minimac_verify(e, m.p, m.tag)
     /\ mm_counter'[e] <= max
     /\ UNCHANGED wire

Next ==
  \/ Boot("A")
  \/ Sign("A", Payloads, MaxCounter)
  \/ Verify("A", Payloads, MaxCounter)
  \/ Restart("A")

Spec == Init /\ [][Next]_vars

\* one engine whose caller signs and verifies payloads of 0, 3 and 8 bytes
NextCalls ==
  \/ Boot("A")
  \/ Sign("A", CallPayloads, CallsMaxCounter)
  \/ Verify("A", CallPayloads, CallsMaxCounter)
  \/ Restart("A")

SpecCalls == Init /\ [][NextCalls]_vars

\* ------------------------------------------------- sender A and receiver B
\* a frame on the bus: payload and tag, with (ghost) the state of the signer
\* before the sign and the engines that have signed or accepted the frame
Frame(p, tag, pre, used) == [p |-> p, tag |-> tag, pre |-> pre, used |-> used]

\* the sender signs a payload and puts payload and tag on the bus
SignSend(e, P, max) ==
  \E p \in P :
     /\ mm_counter[e] < max
     /\ minimac_sign(e, p)
     /\ wire' = Append(wire, Frame(p, ret'.tag, Logical(e), {e}))

\* the frames of the bus, and the oldest and the newest of them
AllFrames == 1..Len(wire)
EndFrames == {1, Len(wire)} \cap AllFrames

\* engine e is handed payload q with the tag of frame j
Handed(e, j, q, max) ==
  /\ minimac_verify(e, q, wire[j].tag)
  /\ mm_counter'[e] <= max
  /\ wire' = [i \in 1..Len(wire) |->
                IF ret'.ok /\ wire[i].p = q /\ wire[i].tag = wire[j].tag
                  THEN [wire[i] EXCEPT !.used = @ \cup {e}]
                  ELSE wire[i]]

\* engine e is handed a frame of J as it was sent: a delivery (in order or
\* not) or a replay
Receive(e, J, max) == \E j \in J : Handed(e, j, wire[j].p, max)

\* engine e is handed the newest frame with its payload replaced
ReceiveTampered(e, P, max) ==
  /\ wire # <<>>
  /\ \E q \in P \ {wire[Len(wire)].p} : Handed(e, Len(wire), q, max)

NextPair ==
  \/ Boot("A")
  \/ BootPeer("B")
  \/ SignSend("A", PairPayloads, PairMaxCounter)
  \/ Receive("B", AllFrames, PairMaxCounter)
  \/ ReceiveTampered("B", PairPayloads, PairMaxCounter)
  \/ Receive("A", EndFrames, PairMaxCounter)
  \/ Restart("B")

SpecPair == Init /\ [][NextPair]_vars

\* ---------------------------------------------------- frames lost in transit
\* frame j never reaches the receiver
Lost(j) == "lost" \in wire[j].used
\* the frames that can still be handed to the receiver
Kept == {j \in AllFrames : ~Lost(j)}

\* a frame that e has not accepted is lost on the bus
Lose(e) ==
  \E j \in Kept :
     /\ e \notin wire[j].used
     /\ wire' = [wire EXCEPT ![j].used = @ \cup {"lost"}]
     /\ ret' = Call(e, "lost", wire[j].p, wire[j].tag, TRUE, 0)
     /\ wr' = {}
     /\ UNCHANGED <<mm_id, mm_key, mm_counter, mm_hist, mm_hist_cnt, mm_after,
                    cnt_follows, eeprom, phase, log, snap, call>>

NextLoss ==
  \/ Boot("A")
  \/ Boot("B")
  \/ SignSend("A", PairPayloads, LossMaxCounter)
  \/ Receive("B", Kept, LossMaxCounter)
  \/ Lose("B")
  \/ Restart("B")

SpecLoss == Init /\ [][NextLoss]_vars

\* ------------------------------------------------ a damaged EEPROM signature
\* values a damaged signature byte may take
DamagedBytes == {0, 85, 170, 255}

MagicBad(ee) == \E j \in 1..Len(SIGVAL) : ee[SIG_ADDR + j - 1] # SIGVAL[j]

\* while the board is off, one byte of an intact signature is altered
CorruptMagic(e) ==
  /\ phase[e] = "off"
  /\ ~MagicBad(eeprom[e])
  /\ \E j \in 1..Len(SIGVAL) : \E b \in DamagedBytes \ {SIGVAL[j]} :
       eeprom' = [eeprom EXCEPT ![e][SIG_ADDR + j - 1] = b]
  /\ UNCHANGED <<mm_id, mm_key, mm_counter, mm_hist, mm_hist_cnt, mm_after,
                 cnt_follows, phase, wire, ret, wr, log, snap, call>>

NextCorrupt ==
  \/ Boot("A")
  \/ Sign("A", Payloads, CorruptMaxCounter)
  \/ Verify("A", Payloads, CorruptMaxCounter)
  \/ Restart("A")
  \/ CorruptMagic("A")

SpecCorrupt == Init /\ [][NextCorrupt]_vars

\* ------------------------------------------- callers that break payload_len
InitOver == InitBase /\ cnt_follows \in BOOLEAN

NextOver ==
  \/ Boot("A")
  \/ Sign("A", OverPayloads, OverMaxCounter)
  \/ Verify("A", OverPayloads, OverMaxCounter)
  \/ Restart("A")

SpecOver == InitOver /\ [][NextOver]_vars

\* ------------------------------------------------- save_state / load_state
\* counters whose bytes exercise every position EEPROM.put stores below 2^31
RtCounters == {0, 1, 2, 3, 4, 5, 6, 255, 256, 65535, 65536, 16777216, 2147483647}

\* a ledger of a sketch that made c state-advancing calls: slot i holds an
\* entry of length (base + i) mod (M+1); the bytes behind an entry are zero
\* unless entries have been evicted
RtHist(c, base) ==
  [i \in 0..(MINIMAC_HIST_LEN - 1) |->
     IF i < Min(c, MINIMAC_HIST_LEN)
       THEN [len  |-> (base + i) % (MINIMAC_MAX_DATA + 1),
             data |-> [j \in 0..(MINIMAC_MAX_DATA - 1) |->
                         IF j < (base + i) % (MINIMAC_MAX_DATA + 1)
                              \/ c > MINIMAC_HIST_LEN
                           THEN 16 * i + j + 1 ELSE 0]]
       ELSE ZeroSlot]

\* the EEPROM before the save: erased, or holding an older full snapshot
RtEeproms ==
  {[a \in 0..(EEPROM_CELLS - 1) |-> ERASED],
   save_state([a \in 0..(EEPROM_CELLS - 1) |-> ERASED], 300,
              [i \in 0..(MINIMAC_HIST_LEN - 1) |->
                 [len |-> MINIMAC_MAX_DATA,
                  data |-> [j \in 0..(MINIMAC_MAX_DATA - 1) |-> 200 + i]]],
              MINIMAC_HIST_LEN, 0)}

InitRoundTrip ==
  /\ \E c \in RtCounters : \E base \in 0..MINIMAC_MAX_DATA :
       /\ mm_counter  = [e \in Engines |-> IF e = "A" THEN c ELSE 0]
       /\ mm_hist     = [e \in Engines |-> IF e = "A" THEN RtHist(c, base) ELSE ZeroHist]
       /\ mm_hist_cnt = [e \in Engines |->
                           IF e = "A" THEN Min(c, MINIMAC_HIST_LEN) ELSE 0]
  /\ \E ee \in RtEeproms :
       eeprom = [e \in Engines |->
                   IF e = "A" THEN ee ELSE [a \in 0..(EEPROM_CELLS - 1) |-> ERASED]]
  /\ mm_id       = [e \in Engines |-> 0]
  /\ mm_key      = [e \in Engines |-> "none"]
  /\ mm_after    = [e \in Engines |-> 0]
  /\ cnt_follows = FALSE
  /\ phase       = [e \in Engines |-> IF e = "A" THEN "run" ELSE "new"]
  /\ wire        = <<>>
  /\ ret         = Call("A", "reset", <<>>, NoTag, TRUE, 0)
  /\ wr          = {}
  /\ log         = [e \in Engines |-> <<>>]
  /\ snap        = [e \in Engines |-> Ledger(0, ZeroHist, 0)]
  /\ call        = [e \in Engines |-> Idle]

\* save_state() on the counter and ledger in memory
SaveState(e) ==
  /\ phase[e] = "run"
  /\ ret.op = "reset"
  /\ eeprom' = [eeprom EXCEPT ![e] =
                  save_state(@, mm_counter[e], mm_hist[e], mm_hist_cnt[e], mm_after[e])]
  /\ wr' = WrittenAddrs(SaveWrites(mm_counter[e], mm_hist[e], mm_hist_cnt[e],
                                   mm_after[e]))
  /\ snap' = [snap EXCEPT ![e] = Ram(e)]
  /\ ret' = Call(e, "save", <<>>, NoTag, TRUE, 0)
  /\ UNCHANGED <<mm_id, mm_key, mm_counter, mm_hist, mm_hist_cnt, mm_after,
                 cnt_follows, phase, wire, log, call>>

\* the board is switched off after the save
PowerOff(e) == ret.op = "save" /\ PowerCycle(e)

\* the assignments load_state made, ld being its outcome
Loaded(e, ld) ==
  /\ mm_counter' = [mm_counter EXCEPT ![e] = ld.counter]
  /\ mm_hist_cnt' = [mm_hist_cnt EXCEPT ![e] = ld.cnt]
  /\ mm_hist' = [mm_hist EXCEPT ![e] = ld.hist]
  /\ ret' = Call(e, "load", <<>>, NoTag, ld.ok, 0)

\* load_state() into the zeroed statics of the restarted sketch
LoadState(e) ==
  /\ phase[e] = "off"
  /\ phase' = [phase EXCEPT ![e] = "run"]
  /\ Loaded(e, load_state(eeprom[e], mm_counter[e], mm_hist[e], mm_hist_cnt[e]))
  /\ wr' = {}
  /\ UNCHANGED <<mm_id, mm_key, mm_after, cnt_follows, eeprom, wire, log, snap,
                 call>>

NextRoundTrip ==
  \/ SaveState("A")
  \/ PowerOff("A")
  \/ LoadState("A")

SpecRoundTrip == InitRoundTrip /\ [][NextRoundTrip]_vars

\* ------------------------------------ two engines signing on their own
\* two boards with the same key and id, each signing its own payloads
NextTwin ==
  \/ Boot("A")
  \/ Boot("B")
  \/ Sign("A", TwinPayloads, TwinMaxCounter)
  \/ Sign("B", TwinPayloads, TwinMaxCounter)

SpecTwin == Init /\ [][NextTwin]_vars

\* ------------------------------- a sign call interrupted by another sign
\* The main program's minimac_sign, statement by statement; an interrupt
\* handler that calls minimac_sign runs to completion between two of them.

\* sign steps (1)-(3) with mm_counter++ moved in front of compute_digest
MainDigest_countFirst(e, p) ==
  /\ phase[e] = "run"
  /\ call[e].at = "idle"
  /\ mm_counter' = [mm_counter EXCEPT ![e] = @ + 1]
  /\ call' = [call EXCEPT ![e] =
                [at |-> "digested", p |-> p,
                 tag |-> TagOf(hmac_md5(DigestInput(mm_id[e], mm_counter[e] + 1,
                                                     mm_hist[e], mm_hist_cnt[e],
                                                     mm_after[e], p), mm_key[e])),
                 pre |-> Ram(e)]]
  /\ ret' = Call(e, "digest", p, NoTag, TRUE, 0)
  /\ wr' = {}
  /\ UNCHANGED <<mm_id, mm_key, mm_hist, mm_hist_cnt, mm_after,
                 cnt_follows, eeprom, phase, wire, log, snap>>

\* sign steps (1)-(3): compute_digest and the copy of the tag into the buffer
MainDigest(e, p) ==
  /\ phase[e] = "run"
  /\ call[e].at = "idle"
  /\ call' = [call EXCEPT ![e] =
                [at |-> "digested", p |-> p, tag |-> TagOf(compute_digest(e, p)),
                 pre |-> Ram(e)]]
  /\ ret' = Call(e, "digest", p, NoTag, TRUE, 0)
  /\ wr' = {}
  /\ UNCHANGED <<mm_id, mm_key, mm_counter, mm_hist, mm_hist_cnt, mm_after,
                 cnt_follows, eeprom, phase, wire, log, snap>>

\* the ledger ap is in memory
Appended(e, ap) ==
  /\ mm_hist' = [mm_hist EXCEPT ![e] = ap.hist]
  /\ mm_hist_cnt' = [mm_hist_cnt EXCEPT ![e] = ap.cnt]
  /\ mm_after' = [mm_after EXCEPT ![e] = ap.after]

\* sign step (4): eviction and append
MainAppend(e) ==
  /\ call[e].at = "digested"
  /\ Appended(e, HistAppend(mm_hist[e], mm_hist_cnt[e], mm_after[e], call[e].p))
  /\ call' = [call EXCEPT ![e].at = "appended"]
  /\ ret' = Call(e, "append", call[e].p, NoTag, TRUE, 0)
  /\ wr' = {}
  /\ UNCHANGED <<mm_id, mm_key, mm_counter, cnt_follows, eeprom, phase, wire,
                 log, snap>>

\* sign step (5): mm_counter++
MainCount(e) ==
  /\ call[e].at = "appended"
  /\ mm_counter' = [mm_counter EXCEPT ![e] = @ + 1]
  /\ call' = [call EXCEPT ![e].at = "counted"]
  /\ ret' = Call(e, "count", call[e].p, NoTag, TRUE, 0)
  /\ wr' = {}
  /\ UNCHANGED <<mm_id, mm_key, mm_hist, mm_hist_cnt, mm_after, cnt_follows,
                 eeprom, phase, wire, log, snap>>

\* sign step (6) and the return: save_state() on what is in memory now
MainSave(e) ==
  /\ call[e].at = "counted"
  /\ eeprom' = [eeprom EXCEPT ![e] =
                  save_state(@, mm_counter[e], mm_hist[e], mm_hist_cnt[e], mm_after[e])]
  /\ wr' = WrittenAddrs(SaveWrites(mm_counter[e], mm_hist[e], mm_hist_cnt[e],
                                   mm_after[e]))
  /\ snap' = [snap EXCEPT ![e] = Ram(e)]
  /\ log' = [log EXCEPT ![e] = Append(@, call[e].p)]
  /\ call' = [call EXCEPT ![e] = Idle]
  /\ ret' = [Call(e, "sign", call[e].p, call[e].tag, TRUE,
                  (Len(call[e].p) + MINIMAC_TAG_LEN) % 256)
               EXCEPT !.buf = Tagged(call[e].p, call[e].tag)]
  /\ UNCHANGED <<mm_id, mm_key, mm_counter, mm_hist, mm_hist_cnt, mm_after,
                 cnt_follows, phase, wire>>

\* the main program starts a sign call
MainSign(e, P, max) == \E p \in P : mm_counter[e] < max /\ MainDigest(e, p)

NextReent ==
  \/ Boot("A")
  \/ MainSign("A", PairPayloads, ReentMaxCounter)
  \/ MainAppend("A")
  \/ MainCount("A")
  \/ MainSave("A")
  \/ SignSend("A", PairPayloads, ReentMaxCounter)

SpecReent == Init /\ [][NextReent]_vars

\* ------------------------------------------------ power lost inside a call
\* the sketch has run for a while: the ledger is full and the counter is 5,
\* or 255 (the next increment carries into the second counter byte)
TornCounters == {MINIMAC_HIST_LEN, 255}
TornPayloads == {Payload(2), Payload(MINIMAC_MAX_DATA)}

InitTorn ==
  /\ \E c \in TornCounters : \E base \in {0, 4} :
       /\ mm_counter  = [e \in Engines |-> IF e = "A" THEN c ELSE 0]
       /\ mm_hist     = [e \in Engines |-> IF e = "A" THEN RtHist(c, base) ELSE ZeroHist]
       /\ eeprom = [e \in Engines |->
                      IF e = "A"
                        THEN save_state([a \in 0..(EEPROM_CELLS - 1) |-> ERASED],
                                        c, RtHist(c, base), MINIMAC_HIST_LEN, 0)
                        ELSE [a \in 0..(EEPROM_CELLS - 1) |-> ERASED]]
       /\ snap = [e \in Engines |->
                    IF e = "A" THEN Ledger(c, RtHist(c, base), MINIMAC_HIST_LEN)
                               ELSE Ledger(0, ZeroHist, 0)]
  /\ mm_hist_cnt = [e \in Engines |-> IF e = "A" THEN MINIMAC_HIST_LEN ELSE 0]
  /\ mm_id       = [e \in Engines |-> IF e = "A" THEN 291 ELSE 0]
  /\ mm_key      = [e \in Engines |-> IF e = "A" THEN "K" ELSE "none"]
  /\ mm_after    = [e \in Engines |-> 0]
  /\ cnt_follows = FALSE
  /\ phase       = [e \in Engines |-> IF e = "A" THEN "run" ELSE "new"]
  /\ wire        = <<>>
  /\ ret         = Call("A", "reset", <<>>, NoTag, TRUE, 0)
  /\ wr          = {}
  /\ log         = [e \in Engines |-> <<>>]
  /\ call        = [e \in Engines |-> Idle]

\* a sign call that returns
TornSign(e, P) ==
  \E p \in P : /\ Len(log[e]) < TornMaxCalls
               /\ minimac_sign(e, p)
               /\ UNCHANGED wire

\* power is lost when save_state has made the first Len(done) of its byte
\* writes ws: RAM is gone, the EEPROM keeps the bytes written so far
CutAt(e, p, c, ap, done) ==
  /\ eeprom' = [eeprom EXCEPT ![e] = ApplyWrites(@, done)]
  /\ wr' = WrittenAddrs(done)
  /\ snap' = [snap EXCEPT ![e] = Ledger(c, ap.hist, ap.cnt)]
  /\ call' = [call EXCEPT ![e] = [at |-> "cut", p |-> p, tag |-> NoTag,
                                  pre |-> Ram(e)]]
  /\ ret' = Call(e, "cut", p, NoTag, FALSE, 0)

CutIn(e, p, c, ap, ws) ==
  \E k \in 0..Len(ws) : CutAt(e, p, c, ap, SubSeq(ws, 1, k))

CutSaving(e, p, c, ap) ==
  CutIn(e, p, c, ap, SaveWrites(c, ap.hist, ap.cnt, ap.after))

\* power is lost inside a sign call (or a verify call whose tags matched)
\* with payload p: before save_state, or between two of its byte writes
CutAdvance(e, P) ==
  \E p \in P :
     /\ phase[e] = "run"
     /\ call[e].at = "idle"
     /\ CutSaving(e, p, mm_counter[e] + 1,
                  HistAppend(mm_hist[e], mm_hist_cnt[e], mm_after[e], p))
     /\ phase' = [phase EXCEPT ![e] = "off"]
     /\ mm_id' = [mm_id EXCEPT ![e] = 0]
     /\ mm_key' = [mm_key EXCEPT ![e] = "none"]
     /\ mm_counter' = [mm_counter EXCEPT ![e] = 0]
     /\ mm_hist' = [mm_hist EXCEPT ![e] = ZeroHist]
     /\ mm_hist_cnt' = [mm_hist_cnt EXCEPT ![e] = 0]
     /\ mm_after' = [mm_after EXCEPT ![e] = 0]
     /\ UNCHANGED <<cnt_follows, wire, log>>

NextTorn ==
  \/ Boot("A")
  \/ TornSign("A", TornPayloads)
  \/ CutAdvance("A", TornPayloads)
  \/ Restart("A")

SpecTorn == InitTorn /\ [][NextTorn]_vars

\* ================================================================== claims
RECURSIVE Flatten(_)
Flatten(ss) == IF ss = <<>> THEN <<>> ELSE Head(ss) \o Flatten(Tail(ss))

\* the last n elements of a sequence
LastN(ss, n) == SubSeq(ss, Len(ss) - n + 1, Len(ss))

\* the snapshot in ee as load_state reads it into zeroed statics
Decode(ee) == load_state(ee, 0, ZeroHist, 0)

\* C1: a verify call whose recomputed tag differs from the supplied tag
\* returns false, leaves counter, ledger and snapshot as they were, and
\* writes nothing to the EEPROM.
C1_FailedVerifyChangesNothing ==
  [][(ret'.op = "verify"
        /\ TagDiffers(compute_digest(ret'.e, ret'.p), ret'.tag))
       => /\ ret'.ok = FALSE
          /\ mm_counter' = mm_counter
          /\ mm_hist' = mm_hist
          /\ mm_hist_cnt' = mm_hist_cnt
          /\ eeprom' = eeprom
          /\ wr' = {}]_vars

C1_Witness ==
  /\ ret.op = "verify" /\ ret.ok = FALSE /\ Len(ret.p) = 2
  /\ mm_hist_cnt[ret.e] = MINIMAC_HIST_LEN

\* C2: a tag that sign produced verifies on an engine with the key, id,
\* counter and ledger the signer had before the sign, and every verify of
\* the same payload and tag on an engine that has already signed or accepted
\* it fails, whatever was signed or accepted since.
C2_SignedTagVerifiesOnce ==
  [][\A j \in 1..Len(wire) :
       (ret'.op = "verify" /\ ret'.p = wire[j].p /\ ret'.tag = wire[j].tag) =>
          /\ (ret'.e \in wire[j].used) => ~ret'.ok
          /\ (wire[j].pre = Logical(ret'.e)) => ret'.ok]_vars

\* B accepted an empty frame, accepted a later frame, and was then handed
\* the empty frame again
C2_Witness ==
  /\ ret.op = "verify" /\ ret.e = "B" /\ ~ret.ok /\ ret.p = <<>>
  /\ \E j \in 1..Len(wire) :
       /\ wire[j].p = ret.p /\ wire[j].tag = ret.tag
       /\ wire[j].used = {"A", "B"}
       /\ mm_counter["B"] > j
       /\ mm_counter["A"] > mm_counter["B"]

\* C3: from a fresh state the counter equals the number of sign calls plus
\* successful verify calls; each such call adds exactly 1, a failed verify
\* adds 0, and the counter never decreases.
C3_CounterCountsAdvances ==
  [][\A e \in Engines :
       /\ phase'[e] = "run" => mm_counter'[e] = Len(log'[e])
       /\ (phase[e] = "run" /\ phase'[e] = "run" /\ ret'.e = e) =>
            /\ mm_counter'[e] >= mm_counter[e]
            /\ (ret'.op = "sign" \/ (ret'.op = "verify" /\ ret'.ok))
                 => mm_counter'[e] = mm_counter[e] + 1
            /\ (ret'.op = "verify" /\ ~ret'.ok)
                 => mm_counter'[e] = mm_counter[e]]_vars

C3_Witness ==
  /\ ret.op = "verify" /\ ~ret.ok
  /\ phase[ret.e] = "run"
  /\ mm_counter[ret.e] = MINIMAC_HIST_LEN + 1

\* C4: the ledger is a strict FIFO: it holds exactly the payloads of the last
\* min(k, L) sign / successful verify calls, oldest first, and those are the
\* history bytes of the digest input.
C4_LedgerIsFifoOfLastL ==
  \A e \in Engines : phase[e] = "run" =>
    LET k == Len(log[e])
        n == Min(k, MINIMAC_HIST_LEN)
    IN /\ mm_hist_cnt[e] = n
       /\ \A i \in 0..(n - 1) :
            /\ mm_hist[e][i].len = Len(log[e][k - n + i + 1])
            /\ Entry(e, i) = log[e][k - n + i + 1]
       /\ HistConcat(mm_hist[e], mm_hist_cnt[e], mm_after[e], 0)
            = Flatten(LastN(log[e], n))

\* L+1 appends were made, the first payload differs from all later ones
C4_Witness ==
  /\ phase["A"] = "run"
  /\ Len(log["A"]) = MINIMAC_HIST_LEN + 1
  /\ log["A"][1] = Payload(MINIMAC_MAX_DATA)
  /\ \A j \in 2..Len(log["A"]) : log["A"][j] # Payload(MINIMAC_MAX_DATA)
  /\ log["A"][2] = Payload(2)

\* C5: with payload_len <= M in every call, the entry count is at most L and
\* every stored length is at most M, so the slot an append writes is one of
\* the 5 slots.
C5_LedgerWithinBounds ==
  \A e \in Engines :
    /\ mm_hist_cnt[e] <= MINIMAC_HIST_LEN
    /\ \A i \in 0..(MINIMAC_HIST_LEN - 1) : mm_hist[e][i].len <= MINIMAC_MAX_DATA
    /\ (ret.e = e /\ (ret.op = "sign" \/ (ret.op = "verify" /\ ret.ok)))
         => (mm_hist_cnt[e] - 1) \in 0..(MINIMAC_HIST_LEN - 1)

C5_Witness ==
  /\ ret.op = "init" /\ ret.ok
  /\ mm_hist_cnt[ret.e] = MINIMAC_HIST_LEN
  /\ mm_counter[ret.e] > MINIMAC_HIST_LEN
  /\ \E i \in 0..(MINIMAC_HIST_LEN - 1) : mm_hist[ret.e][i].len = MINIMAC_MAX_DATA

\* the receiver was built with the key and id of the sender
SameChannel ==
  /\ wire # <<>>
  /\ mm_key["B"] = wire[1].pre.key
  /\ mm_id["B"] = wire[1].pre.id

\* C10: with the same key and id and both engines starting fresh, the frames
\* B has accepted are exactly the first mm_counter[B] frames A signed, B's
\* counter and ledger are those A had after signing them (and B's snapshot is
\* A's once all are delivered), and the next frame in order always verifies.
C10_ReceiverInLockStep ==
  /\ []((phase["B"] = "run" /\ SameChannel) =>
          /\ mm_counter["B"] <= Len(wire)
          /\ \A j \in 1..Len(wire) :
               ("B" \in wire[j].used) <=> (j <= mm_counter["B"])
          /\ mm_counter["B"] < Len(wire)
               => Logical("B") = wire[mm_counter["B"] + 1].pre
          /\ mm_counter["B"] = Len(wire)
               => /\ Logical("B") = Logical("A")
                  /\ Ram("B") = Ram("A")
                  /\ eeprom["B"] = eeprom["A"])
  /\ [][(/\ ret'.op = "verify" /\ ret'.e = "B"
         /\ SameChannel
         /\ mm_counter["B"] < Len(wire)
         /\ ret'.p = wire[mm_counter["B"] + 1].p
         /\ ret'.tag = wire[mm_counter["B"] + 1].tag)
          => /\ ret'.ok
             /\ mm_counter'["B"] = mm_counter["B"] + 1]_vars

\* B has accepted L+1 frames, the last one after a restart, and has caught up
C10_Witness ==
  /\ ret.op = "verify" /\ ret.e = "B" /\ ret.ok
  /\ mm_counter["B"] = MINIMAC_HIST_LEN + 1
  /\ Len(wire) = mm_counter["B"]
  /\ Ram("B") = Ram("A")
  /\ wire[1].p = Payload(2) /\ wire[2].p = <<>>

\* C6 (as claimed): a sign or verify call with payload_len > M reports
\* failure and changes no ledger slot, no counter and no EEPROM byte.
C6_OversizeRejected ==
  [][((ret'.op = "sign" \/ ret'.op = "verify")
        /\ Len(ret'.p) > MINIMAC_MAX_DATA)
       => /\ ret'.ok = FALSE
          /\ mm_hist' = mm_hist
          /\ mm_hist_cnt' = mm_hist_cnt
          /\ mm_after' = mm_after
          /\ mm_counter' = mm_counter
          /\ eeprom' = eeprom
          /\ wr' = {}]_vars

\* C7: load_state after save_state returns true and leaves in memory the
\* counter, the entry count and every live entry (length and data block)
\* that were saved.
C7_SaveLoadRoundTrip ==
  \A e \in Engines : (ret.op = "load" /\ ret.e = e) =>
    /\ ret.ok
    /\ mm_counter[e] = snap[e].counter
    /\ mm_hist_cnt[e] = snap[e].cnt
    /\ \A i \in 0..(mm_hist_cnt[e] - 1) : mm_hist[e][i] = snap[e].entries[i]

\* a full ledger holding an empty and a full entry, with a counter of four
\* bytes, was saved and loaded
C7_Witness ==
  /\ ret.op = "load"
  /\ mm_hist_cnt["A"] = MINIMAC_HIST_LEN
  /\ mm_counter["A"] = 2147483647
  /\ mm_hist["A"][1].len = 0
  /\ mm_hist["A"][0].len = MINIMAC_MAX_DATA
  /\ snap["A"].entries[4].data[7] = 16 * 4 + 7 + 1

\* C8: when any byte of the stored signature differs from SIGVAL, load_state
\* returns false and changes nothing, and minimac_init leaves counter 0 and
\* an empty ledger in memory and in a snapshot with a valid signature.
C8_BadMagicStartsFresh ==
  [][\A e \in Engines :
       (phase[e] # "run" /\ phase'[e] = "run" /\ MagicBad(eeprom[e])) =>
         /\ load_state(eeprom[e], mm_counter[e], mm_hist[e], mm_hist_cnt[e])
              = [ok |-> FALSE, counter |-> mm_counter[e],
                 cnt |-> mm_hist_cnt[e], hist |-> mm_hist[e]]
         /\ ret'.op = "init" /\ ret'.ok = FALSE
         /\ mm_counter'[e] = 0
         /\ mm_hist_cnt'[e] = 0
         /\ ~MagicBad(eeprom'[e])
         /\ Decode(eeprom'[e]).ok
         /\ Decode(eeprom'[e]).counter = 0
         /\ Decode(eeprom'[e]).cnt = 0]_vars

\* init has started fresh over the snapshot of an earlier run whose last
\* signature byte was altered
C8_Witness ==
  /\ ret.op = "init" /\ ~ret.ok
  /\ mm_counter[ret.e] = 0 /\ mm_hist_cnt[ret.e] = 0
  /\ eeprom[ret.e][SlotAddr(0)] = 2
  /\ eeprom[ret.e][SlotAddr(1)] = MINIMAC_MAX_DATA

\* C11: for payload_len <= M, sign returns payload_len + 4, the 4 bytes of
\* the buffer behind the payload are the tag of the digest over the state
\* before the call, the payload bytes of the buffer are unchanged, and the
\* entry appended to the ledger is the payload without the tag.
C11_SignTagsBufferStoresPayload ==
  [][(ret'.op = "sign" /\ Len(ret'.p) <= MINIMAC_MAX_DATA) =>
       /\ ret'.total = Len(ret'.p) + 4
       /\ \A i \in 0..3 :
            ret'.buf[Len(ret'.p) + 1 + i] = compute_digest(ret'.e, ret'.p)[i]
       /\ \A j \in 1..Len(ret'.p) : ret'.buf[j] = ret'.p[j]
       /\ mm_hist'[ret'.e][mm_hist_cnt'[ret'.e] - 1].len = Len(ret'.p)
       /\ SlotBytes(mm_hist'[ret'.e], mm_hist_cnt'[ret'.e], mm_after'[ret'.e],
                    mm_hist_cnt'[ret'.e] - 1, Len(ret'.p)) = ret'.p]_vars

\* a payload of M bytes was signed into the last slot of a full ledger
C11_Witness ==
  /\ ret.op = "sign" /\ Len(ret.p) = MINIMAC_MAX_DATA
  /\ ret.total = MINIMAC_MAX_DATA + MINIMAC_TAG_LEN
  /\ mm_counter[ret.e] = MINIMAC_HIST_LEN + 1
  /\ mm_hist[ret.e][0].len = 3

\* C12: once a frame A signed is lost, B accepts no frame A signed at or
\* after it: every verify of such a frame fails and changes nothing; and from
\* the moment the lost frame is the one B needs next, B's counter, ledger and
\* snapshot never change again, restarts of B included.
C12_LostFrameDesynchronizes ==
  /\ [](\A j \in 1..Len(wire) : Lost(j) =>
          /\ snap["B"].counter < j
          /\ \A k \in j..Len(wire) : "B" \notin wire[k].used)
  /\ [][(ret'.op = "verify" /\ ret'.e = "B"
          /\ \E j \in 1..Len(wire) : \E k \in (j + 1)..Len(wire) :
                Lost(j) /\ ret'.p = wire[k].p /\ ret'.tag = wire[k].tag)
           => /\ ~ret'.ok
              /\ Ram("B")' = Ram("B")
              /\ eeprom'["B"] = eeprom["B"]]_vars
  /\ [][(/\ phase["B"] # "new"
          /\ snap["B"].counter < Len(wire)
          /\ Lost(snap["B"].counter + 1))
           => /\ snap'["B"] = snap["B"]
              /\ eeprom'["B"] = eeprom["B"]
              /\ phase'["B"] = "run" => Ram("B")' = snap["B"]]_vars

\* B accepted the first frame, the second was lost, and B refused the third,
\* which carries the payload of the second
C12_Witness ==
  /\ ret.op = "verify" /\ ret.e = "B" /\ ~ret.ok
  /\ Len(wire) >= 3 /\ Lost(2) /\ ~Lost(3)
  /\ ret.p = wire[3].p /\ ret.tag = wire[3].tag
  /\ mm_counter["B"] = 1
  /\ wr = {}
  /\ wire[2].p = wire[3].p

\* C13 (as claimed): when power was lost inside a call, the counter and
\* ledger the next init restores are those from before the call, or those the
\* call was saving.
C13_PowerLossRestoresOldOrNew ==
  [][\A e \in Engines :
       (ret.op = "cut" /\ ret.e = e /\ phase'[e] = "run") =>
          \/ Ram(e)' = call[e].pre
          \/ Ram(e)' = snap[e]]_vars

\* the 8 big-endian bytes of a counter below 2^31
BE8(c) == [j \in 1..8 |-> IF j <= 4 THEN 0 ELSE (c \div (256 ^ (8 - j))) % 256]

RECURSIVE SumLen(_)
SumLen(ss) == IF ss = <<>> THEN 0 ELSE Len(Head(ss)) + SumLen(Tail(ss))

\* the payloads of the last min(k, L) state-advancing calls of e, oldest first
Recent(e) == LastN(log[e], Min(Len(log[e]), MINIMAC_HIST_LEN))

\* the authentication input of the claim for payload p, k = Len(log[e])
\* state-advancing calls after the fresh state
AuthInput(e, p) ==
  BE8(Len(log[e])) \o <<mm_id[e] \div 256, mm_id[e] % 256>>
    \o Flatten(Recent(e)) \o p

\* C14: the tag sign produces, and the only tag verify accepts, is the first
\* 4 bytes of the keyed digest over the big-endian counter before the
\* increment (the number k of earlier state-advancing calls), the big-endian
\* id, the ledger entries before the append in order, each with its stored
\* length, and the payload: 10 + sum of entry lengths + payload_len bytes.
C14_TagCoversCounterIdLedgerPayload ==
  [][(ret'.op = "sign" \/ ret'.op = "verify") =>
       /\ mm_counter[ret'.e] = Len(log[ret'.e])
       /\ DigestInput(mm_id[ret'.e], mm_counter[ret'.e], mm_hist[ret'.e],
                      mm_hist_cnt[ret'.e], mm_after[ret'.e], ret'.p)
            = AuthInput(ret'.e, ret'.p)
       /\ Len(AuthInput(ret'.e, ret'.p))
            = 10 + SumLen(Recent(ret'.e)) + Len(ret'.p)
       /\ \A i \in 0..(mm_hist_cnt[ret'.e] - 1) :
            mm_hist[ret'.e][i].len = Len(Recent(ret'.e)[i + 1])
       /\ ret'.op = "sign" =>
            ret'.tag = [i \in 0..3 |->
                          hmac_md5(AuthInput(ret'.e, ret'.p), mm_key[ret'.e])[i]]
       /\ ret'.op = "verify" =>
            (ret'.ok <=>
               ret'.tag = [i \in 0..3 |->
                             hmac_md5(AuthInput(ret'.e, ret'.p), mm_key[ret'.e])[i]])
     ]_vars

\* the sixth state-advancing call was a verify that succeeded on a full
\* ledger holding entries of 3, 0 and 8 bytes, the first payload (8 bytes)
\* leaving the ledger
C14_Witness ==
  /\ ret.op = "verify" /\ ret.ok /\ Len(ret.p) = 3
  /\ Len(log[ret.e]) = MINIMAC_HIST_LEN + 1
  /\ Len(log[ret.e][1]) = MINIMAC_MAX_DATA
  /\ Len(log[ret.e][2]) = 3
  /\ Len(log[ret.e][3]) = 0
  /\ Len(log[ret.e][4]) = MINIMAC_MAX_DATA
  /\ mm_hist[ret.e][0].len = 3

\* C15: a sign call that runs right after another sign call's digest
\* computation, before that call's append, increment and save, is tagged
\* under the very counter and ledger of the interrupted call: with the same
\* payload it returns the same tag, although both calls go on to advance the
\* counter.
C15_NestedSignReusesCounter ==
  [][\A e \in Engines :
       (/\ ret.op = "digest" /\ ret.e = e
        /\ ret'.op = "sign" /\ ret'.e = e
        /\ call'[e].at = "digested") =>
          /\ Ram(e) = call[e].pre
          /\ ret'.p = call[e].p => ret'.tag = call[e].tag
          /\ mm_counter'[e] = call[e].pre.counter + 1]_vars

\* the interrupted call has returned too: two sign calls returned the same
\* tag for the same payload, and the counter moved on by two
C15_Witness ==
  /\ ret.op = "sign" /\ ret.e = "A" /\ call["A"].at = "idle"
  /\ Len(wire) = 1
  /\ wire[1].p = ret.p /\ wire[1].tag = ret.tag
  /\ Len(ret.p) = 2
  /\ mm_counter["A"] = 2
  /\ snap["A"] = Ram("A")

\* a call of save_state has been made in the step
SaveRan ==
  \/ ret'.op = "sign"
  \/ ret'.op = "verify" /\ ret'.ok
  \/ ret'.op = "init" /\ ~ret'.ok

\* C16 (as claimed): every save_state call writes the magic, the counter, the
\* count and all 5 slots, that is every address of the snapshot region.
C16_SaveWritesAllSlots ==
  [][SaveRan => wr' = 0..(4 + 8 + 1 + 5 * 9 - 1)]_vars

\* C16 (amended): every save_state call writes the magic, the counter, the
\* count and the slots below the entry count, and nothing else: the slots at
\* and above the entry count keep what they held.
C16_SaveWritesLiveSlots ==
  [][SaveRan =>
       /\ wr' = 0..(4 + 8 + 1 + mm_hist_cnt'[ret'.e] * 9 - 1)
       /\ \A a \in (4 + 8 + 1 + mm_hist_cnt'[ret'.e] * 9)..(EEPROM_CELLS - 1) :
            eeprom'[ret'.e][a] = eeprom[ret'.e][a]]_vars

\* a sign with one entry in the ledger wrote 22 bytes; slot 1 still holds the
\* entry of an earlier run
C16_Witness ==
  /\ ret.op = "sign"
  /\ mm_hist_cnt[ret.e] = 1
  /\ wr = 0..21
  /\ eeprom[ret.e][SlotAddr(1)] = MINIMAC_MAX_DATA
  /\ eeprom[ret.e][SlotAddr(1) + 1] = MINIMAC_MAX_DATA

\* the addresses of the layout for n entries: magic 0..3, counter 4..11,
\* count 12, slot i at 13 + 9*i with a length byte and 8 data bytes
Layout(n) ==
  (0..3) \cup (4..11) \cup {12}
    \cup UNION {(13 + 9 * i)..(13 + 9 * i + 8) : i \in 0..(n - 1)}

\* C17: save_state writes, and load_state reads, only addresses in [0, 58):
\* the magic at 0..3, the counter at 4..11, the count at 12 and slot i at
\* 13 + 9*i; load_state reads exactly the addresses save_state wrote for the
\* same entry count.
C17_SnapshotAddresses ==
  /\ [](\A e \in Engines : LoadReads(eeprom[e]) \subseteq 0..57)
  /\ [][SaveRan =>
          /\ wr' \subseteq 0..57
          /\ wr' = Layout(mm_hist_cnt'[ret'.e])
          /\ LoadReads(eeprom'[ret'.e]) = wr'
          /\ \A j \in 0..3 : eeprom'[ret'.e][j] = SIGVAL[j + 1]
          /\ eeprom'[ret'.e][12] = mm_hist_cnt'[ret'.e]
          /\ \A i \in 0..(mm_hist_cnt'[ret'.e] - 1) :
               /\ eeprom'[ret'.e][13 + 9 * i] = mm_hist'[ret'.e][i].len
               /\ \A j \in 0..7 :
                    eeprom'[ret'.e][13 + 9 * i + 1 + j] = mm_hist'[ret'.e][i].data[j]]_vars
  /\ [][\A e \in Engines :
          (phase[e] # "run" /\ phase'[e] = "run" /\ ret'.ok) =>
             LoadReads(eeprom[e]) = Layout(mm_hist_cnt'[e])]_vars

\* a restart read all 58 bytes of a snapshot with a full ledger
C17_Witness ==
  /\ ret.op = "init" /\ ret.ok
  /\ LoadReads(eeprom[ret.e]) = 0..57
  /\ eeprom[ret.e][13 + 9 * 4] = 3
  /\ mm_hist[ret.e][4].len = 3

\* the buffer compute_digest of engine e builds for payload p
InputOf(e, p) ==
  DigestInput(mm_id[e], mm_counter[e], mm_hist[e], mm_hist_cnt[e], mm_after[e], p)

\* two engines with the same counter and id
SameCounterAndId ==
  /\ phase["A"] = "run" /\ phase["B"] = "run"
  /\ mm_counter["A"] = mm_counter["B"]
  /\ mm_id["A"] = mm_id["B"]

\* C18 (as claimed): for a fixed counter and id, two different combinations
\* of ledger entries and payload never give the same digest input.
C18_DigestInputInjective ==
  SameCounterAndId =>
    \A p \in TwinPayloads : \A q \in TwinPayloads :
       (Logical("A").entries # Logical("B").entries \/ p # q)
          => InputOf("A", p) # InputOf("B", q)

\* C18 (amended): for a fixed counter and id, two combinations of ledger and
\* payload give the same digest input, and with the same key the same tag,
\* exactly when the ledger entries in order followed by the payload are the
\* same byte string.
C18_DigestInputFollowsConcatenation ==
  SameCounterAndId =>
    \A p \in TwinPayloads : \A q \in TwinPayloads :
       /\ (InputOf("A", p) = InputOf("B", q))
            <=> (Flatten(Recent("A")) \o p = Flatten(Recent("B")) \o q)
       /\ (TagOf(compute_digest("A", p)) = TagOf(compute_digest("B", q)))
            <=> (Flatten(Recent("A")) \o p = Flatten(Recent("B")) \o q)

\* the ledgers <<1>>, <<1,1>> and <<1,1>>, <<1>> under counter 2
C18_Witness ==
  /\ SameCounterAndId
  /\ mm_counter["A"] = 2
  /\ log["A"] = << <<1>>, <<1, 1>> >>
  /\ log["B"] = << <<1, 1>>, <<1>> >>
  /\ InputOf("A", <<1>>) = InputOf("B", <<1>>)

\* C19 (as claimed): the counter init restores is never lower than the
\* counter left by the last sign or successful verify that returned, also
\* when power was lost inside a later call.
C19_RestoredCounterNeverLower ==
  [][\A e \in Engines :
       (phase[e] # "run" /\ phase'[e] = "run") =>
          mm_counter'[e] >= (IF ret.op = "cut" THEN call[e].pre.counter
                                                ELSE snap[e].counter)]_vars

\* C20: in every state reached from a fresh init by completed calls and
\* power cycles between them, the entry count is min(counter, L), in memory
\* and in the snapshot.
C20_CountIsMinOfCounterAndL ==
  \A e \in Engines :
    /\ phase[e] = "run" =>
         mm_hist_cnt[e] = (IF mm_counter[e] < 5 THEN mm_counter[e] ELSE 5)
    /\ phase[e] # "new" =>
         Decode(eeprom[e]).cnt
           = (IF Decode(eeprom[e]).counter < 5 THEN Decode(eeprom[e]).counter ELSE 5)

\* a restart after six state-advancing calls
C20_Witness ==
  /\ ret.op = "init" /\ ret.ok
  /\ mm_counter[ret.e] = MINIMAC_HIST_LEN + 1
  /\ mm_hist_cnt[ret.e] = MINIMAC_HIST_LEN
  /\ Decode(eeprom[ret.e]).counter = MINIMAC_HIST_LEN + 1
  /\ Len(log[ret.e]) = MINIMAC_HIST_LEN + 1

\* C9: whenever init, sign or a successful verify has returned, the snapshot
\* has a valid magic and decodes to the counter and ledger in memory; init
\* after a power cycle restores what the last call left in memory and writes
\* nothing.
C9_SnapshotMirrorsMemory ==
  /\ [](\A e \in Engines : phase[e] = "run" =>
          LET ld == Decode(eeprom[e])
          IN ld.ok /\ Ledger(ld.counter, ld.hist, ld.cnt) = Ram(e))
  /\ [][\A e \in Engines :
          (phase[e] = "off" /\ phase'[e] = "run") =>
            /\ ret'.ok
            /\ wr' = {}
            /\ eeprom' = eeprom
            /\ Ram(e)' = snap[e]]_vars

C9_Witness ==
  /\ ret.op = "init" /\ ret.ok /\ wr = {}
  /\ mm_counter[ret.e] = MINIMAC_HIST_LEN + 1
  /\ mm_hist[ret.e][0].len = 2

====
